---------------------------- MODULE Spec2Model ----------------------------
(***************************************************************************)
(* Verification model of the stwdo-dorm-bot repository.                    *)
(*                                                                         *)
(*   src/main.py     STWDOTelegramBot: analyze_page_content,               *)
(*                   check_for_updates, send_telegram_message and the      *)
(*                   run_monitoring loop (single thread).                  *)
(*   src/monitor.py  DormMonitor: the lock-guarded control surface         *)
(*                   (configure/start/stop/manual_check/...) and the       *)
(*                   background monitor_loop threads.                      *)
(*                                                                         *)
(* The specifications share the variables below:                           *)
(*   SpecBot          the run_monitoring loop of src/main.py               *)
(*   SpecEvaluate     check_for_updates applied to every tracker state and *)
(*                    every content (the evaluate(observation, state)      *)
(*                    contract taken as a function of its inputs)          *)
(*   SpecMonitor      the threads of DormMonitor in src/monitor.py         *)
(*   SpecMonitorFair  the same threads, scheduled fairly                   *)
(*   SpecLogs         the log buffer of DormMonitor                        *)
(*   SpecWorker       one worker of DormMonitor running cycle after cycle  *)
(*   SpecLifecycle    a DormMonitor configured, started, stopped, cleared, *)
(*                    configured again and started again                   *)
(***************************************************************************)
EXTENDS Integers, Sequences, FiniteSets, TLC

VARIABLES
    \* ---- STWDOTelegramBot (src/main.py) ----
    last_hash,            \* self.last_hash: None or an md5 hexdigest
    last_rooms_status,    \* self.last_rooms_status: None, True or False
    consecutive_errors,   \* local of run_monitoring
    total_checks,         \* local of run_monitoring
    bot_pc,               \* "init", "loop" or "stopped"
    cfu,                  \* the last check_for_updates call, its outcome and
                          \* the analyzer call before it
    bot_ev,               \* what the last loop iteration did and sent
    fetch_streak,         \* fetch failures in a row, up to the last iteration
    streak_warnings,      \* escalation warnings sent during that streak
    \* ---- DormMonitor (src/monitor.py) ----
    url, bot_token, chat_id, check_interval, bot,
    previous_hash,        \* "" until the first successful cycle
    is_running,
    monitor_thread,       \* the Thread object of the last start(): its id
    logs,                 \* list of log entries, oldest first
    last_check_time,      \* None (0) or the timestamp of a cycle
    last_check_status,
    status_cycle,         \* history: the cycle that wrote last_check_status
    lock,                 \* threading.Lock: Free or the thread holding it
    \* ---- the threads that run DormMonitor's methods ----
    pc,                   \* position of every thread
    loc,                  \* locals of every thread
    call,                 \* the control-surface call of every caller
    nconfigures,          \* configure() calls made so far
    ncalls,               \* start(), stop(), manual_check(), add_log() calls so far
    ncycles,              \* check_website executions begun so far
    nspawned              \* Thread objects started so far

bot_vars == <<last_hash, last_rooms_status, consecutive_errors, total_checks,
              bot_pc, cfu, bot_ev, fetch_streak, streak_warnings>>

mon_vars == <<url, bot_token, chat_id, check_interval, bot, previous_hash,
              is_running, monitor_thread, logs, last_check_time,
              last_check_status, status_cycle, lock, pc, loc, call, nconfigures,
              ncalls, ncycles, nspawned>>

vars == <<bot_vars, mon_vars>>

(***************************************************************************)
(* Bounds                                                                  *)
(***************************************************************************)
\* iterations of the run_monitoring loop that are explored
MaxChecks == 12

\* configure() calls made on the DormMonitor
MaxConfigures == 2

\* start(), stop() and manual_check() calls made on the DormMonitor
MaxCalls == 3

\* check_website executions (worker cycles and manual checks together)
MaxCycles == 2

\* add_log calls made on the DormMonitor by its user
MaxLogCalls == 103

\* check_website executions of a worker that no manual check and no second
\* worker runs beside
MaxWorkerCycles == 3

(***************************************************************************)
(* Python values                                                           *)
(***************************************************************************)
\* Optional values: None is the empty set, a set value x is {x}.
None == {}

Some(x) == {x}

\* The value of an optional that is set
TheValue(opt) == CHOOSE x \in opt : TRUE

\* What fetch_page_content hands to the loop.  A page is known to the
\* program only through its fingerprint and the signals that
\* analyze_page_content extracts from it, so a content is those:
\*   kind "none"   the fetch failed (None)
\*   kind "empty"  an empty response body ("")
\*   kind "page"   a non-empty page
Content(kind, id, sentinel, patterns, positive, links, prices, forms, inputs, len) ==
    [kind |-> kind, id |-> id, sentinel |-> sentinel,
     room_pattern_matches |-> patterns, positive_count |-> positive,
     links |-> links, price_matches |-> prices, forms |-> forms,
     inputs |-> inputs, page_text_length |-> len]

NoContent == Content("none", "-", FALSE, 0, 0, 0, 0, 0, 0, 0)

EmptyContent == Content("empty", "md5_empty", FALSE, 0, 0, 0, 0, 0, 0, 0)

Pages ==
    { Content("page", "md5_noresults",   TRUE,  0,  4, 0, 0, 1, 3,  600),
      Content("page", "md5_noresults2",  TRUE,  1, 10, 2, 0, 1, 6, 1300),
      Content("page", "md5_listing",     FALSE, 2, 12, 3, 2, 1, 6, 2000),
      Content("page", "md5_listing2",    FALSE, 1,  6, 1, 1, 0, 2,  900),
      Content("page", "md5_bare",        FALSE, 0,  0, 0, 0, 0, 0,  100),
      Content("page", "md5_maintenance", FALSE, 0,  2, 0, 0, 0, 0,  300) }

\* the readings of datetime.now() (seconds) at which calls are made
Clock == {1, 2}

\* Python truthiness of a content: None and "" are false
Truthy(content) == content.kind = "page"

\* hashlib.md5(content.encode('utf-8')).hexdigest()
md5(content) == content.id

Fingerprints == { md5(p) : p \in Pages }

(***************************************************************************)
(* STWDOTelegramBot.analyze_page_content  (src/main.py 176-308)            *)
(***************************************************************************)
\* confidence_score takes half-integer values (line 287 adds 0.5), so the
\* model counts it in halves: a weight w of the source is 2*w here.
Halves(w) == 2 * w

\* rooms_available = confidence_score >= 3   (line 292)
AvailabilityThreshold == 3

\* room_related_links is the Python list built at lines 227-232
room_related_links(content) == [i \in 1..content.links |-> "href"]

\* a test of the number of links: `len(room_related_links) > 0`
room_related_links_len_gt_0(links) == IF Len(links) > 0 THEN "True" ELSE "False"

\* `room_related_links > 0` at line 274 compares a list with an int.  Python 3
\* defines no ordering between the two and raises TypeError.
room_related_links_gt_0(links) == "TypeError"

\* lines 267-272
positive_count_weight(positive_count) ==
    IF positive_count >= 10 THEN 3
    ELSE IF positive_count >= 5 THEN 2
    ELSE IF positive_count >= 3 THEN 1
    ELSE 0

\* confidence_score when control reaches line 274 (lines 258-272)
score_before_links(content) ==
      (IF ~content.sentinel THEN Halves(3) ELSE 0)
    + (IF content.room_pattern_matches > 0 THEN Halves(4) ELSE 0)
    + Halves(positive_count_weight(content.positive_count))

\* what lines 277-287 add once line 274 has been passed
score_after_links(content) ==
      (IF content.price_matches > 0 THEN Halves(2) ELSE 0)
    + (IF content.forms > 0 \/ content.inputs > 5 THEN Halves(1) ELSE 0)
    + (IF content.page_text_length > 1200 THEN Halves(1)
       ELSE IF content.page_text_length > 800 THEN 1
       ELSE 0)

\* the analysis dict (lines 187-191, 198-251, 289); confidence_score is in
\* halves (-1: never assigned).  content_length, len(content), is part of
\* what the content is and varies with nothing else.
Analysis(content, score, now) ==
    [page_text_length     |-> content.page_text_length,
     timestamp            |-> now,
     has_no_rooms_message |-> content.sentinel,
     room_pattern_matches |-> content.room_pattern_matches,
     positive_indicators  |-> content.positive_count,
     room_related_links   |-> content.links,
     forms_count          |-> content.forms,
     input_elements       |-> content.inputs,
     price_matches        |-> content.price_matches,
     confidence_score     |-> score]

NoAnalysis == [page_text_length |-> 0, timestamp |-> 0,
               has_no_rooms_message |-> FALSE, room_pattern_matches |-> 0,
               positive_indicators |-> 0, room_related_links |-> 0,
               forms_count |-> 0, input_elements |-> 0, price_matches |-> 0,
               confidence_score |-> -1]

\* The result of a call made when datetime.now() reads `now`: either it
\* raised, or it returned the triple (rooms_available, status_msg, analysis).
analyze_page_content(content, now) ==
    IF ~Truthy(content)
    THEN [raised |-> FALSE, rooms_available |-> FALSE,
          status_msg |-> "No content to analyze", analysis |-> NoAnalysis]
    ELSE LET cmp == room_related_links_gt_0(room_related_links(content))
             score == score_before_links(content)
                      + (IF cmp = "True" THEN Halves(2) ELSE 0)
                      + score_after_links(content)
         IN  IF cmp = "TypeError"
             THEN [raised |-> TRUE, rooms_available |-> FALSE,
                   status_msg |-> "TypeError", analysis |-> NoAnalysis]
             ELSE [raised |-> FALSE,
                   rooms_available |-> (score >= Halves(AvailabilityThreshold)),
                   status_msg |-> "status",
                   analysis |-> Analysis(content, score, now)]

(***************************************************************************)
(* STWDOTelegramBot.check_for_updates  (src/main.py 310-363)               *)
(***************************************************************************)
\* The outcome of a call made with tracker state (lh, lrs): whether it
\* returned or raised, the returned (notify, msg, analysis) and the tracker
\* state it leaves behind.
CfuResult(outcome, notify, msg, analysis, lh, lrs) ==
    [outcome |-> outcome, notify |-> notify, msg |-> msg,
     analysis |-> analysis, last_hash |-> lh, last_rooms_status |-> lrs]

\* a check_for_updates that stores the fingerprint before it analyses
analysis_raised_after_store(lh, lrs, content_hash) ==
    CfuResult("raised", FALSE, "TypeError", NoAnalysis, Some(content_hash), lrs)

\* an exception of analyze_page_content leaves check_for_updates at line 316,
\* before lines 323-324 and 336 store anything
analysis_raised(lh, lrs, content_hash) ==
    CfuResult("raised", FALSE, "TypeError", NoAnalysis, lh, lrs)

check_for_updates(lh, lrs, content, now) ==
    IF ~Truthy(content)
    THEN CfuResult("returned", FALSE, "No content retrieved", NoAnalysis, lh, lrs)
    ELSE
    LET a == analyze_page_content(content, now)
        content_hash == md5(content)
    IN
    IF a.raised
    THEN analysis_raised(lh, lrs, content_hash)
    ELSE IF lh = None
    THEN \* first run, lines 322-329
         IF a.rooms_available
         THEN CfuResult("returned", TRUE, "ROOMS FOUND ON STARTUP", a.analysis,
                        Some(content_hash), Some(a.rooms_available))
         ELSE CfuResult("returned", FALSE, "Initial scan complete", a.analysis,
                        Some(content_hash), Some(a.rooms_available))
    ELSE
    LET content_changed == Some(content_hash) # lh
        rooms_status_changed == Some(a.rooms_available) # lrs
    IN
    IF a.rooms_available /\ (content_changed \/ rooms_status_changed)
    THEN CfuResult("returned", TRUE,
                   IF rooms_status_changed
                   THEN "NEW ROOMS AVAILABLE (Status changed)"
                   ELSE "ROOMS AVAILABLE (Content updated)",
                   a.analysis, Some(content_hash), Some(a.rooms_available))
    ELSE IF content_changed /\ ~a.analysis.has_no_rooms_message
    THEN CfuResult("returned", TRUE, "WEBSITE UPDATED - Possible new rooms",
                   a.analysis, Some(content_hash), Some(a.rooms_available))
    ELSE CfuResult("returned", FALSE, "No changes detected",
                   a.analysis, Some(content_hash), Some(a.rooms_available))

(***************************************************************************)
(* STWDOTelegramBot.send_telegram_message  (src/main.py 100-120)           *)
(***************************************************************************)
max_retries == 3

\* what the network does to each attempt that is made
PostOutcomes == [1..max_retries -> BOOLEAN]

\* a notifier that waits after every failed attempt, the last one too
backoff_due_always(attempt) == TRUE

\* `if attempt < max_retries - 1` before time.sleep(2)  (line 118)
backoff_due(attempt) == attempt < max_retries - 1

\* the for loop: `attempt` counts from 0, `sleeps` counts the time.sleep(2)
RECURSIVE send_attempt(_, _, _)
send_attempt(post_ok, attempt, sleeps) ==
    IF attempt >= max_retries
    THEN [ok |-> FALSE, attempts |-> attempt, sleeps |-> sleeps]
    ELSE IF post_ok[attempt + 1]
    THEN [ok |-> TRUE, attempts |-> attempt + 1, sleeps |-> sleeps]
    ELSE send_attempt(post_ok, attempt + 1,
                      IF backoff_due(attempt) THEN sleeps + 1 ELSE sleeps)

send_telegram_message(post_ok) == send_attempt(post_ok, 0, 0)

NotSent == [ok |-> FALSE, attempts |-> 0, sleeps |-> 0]

\* no message was sent, so nothing was posted
NoPost == [attempt \in 1..max_retries |-> FALSE]

(***************************************************************************)
(* STWDOTelegramBot.run_monitoring  (src/main.py 365-485)                  *)
(***************************************************************************)
max_consecutive_errors == 10

\* an escalation that repeats on every failure from the fifth on
escalation_due_from_five(errors) == errors >= 5

\* `if consecutive_errors == 5` in the fetch-failure branch (line 441)
escalation_due(errors) == errors = 5

\* `if consecutive_errors >= max_consecutive_errors` in the handler (line 454)
error_alert_due(errors) == errors >= max_consecutive_errors

\* what fetch_page_content can return: None, "" or a page
FetchResults == Pages \cup {NoContent, EmptyContent}

\* no analyze_page_content call was made
NoAnalyzerCall ==
    [called |-> FALSE, content |-> NoContent, at |-> 0,
     result |-> [raised |-> FALSE, rooms_available |-> FALSE,
                 status_msg |-> "-", analysis |-> NoAnalysis]]

\* the analyze_page_content call of line 316, made at time `now`
AnalyzerCall(content, now) ==
    [called |-> TRUE, content |-> content, at |-> now,
     result |-> analyze_page_content(content, now)]

NoCall == [called |-> FALSE, content |-> NoContent, pre_hash |-> None,
           pre_status |-> None, outcome |-> "none", notify |-> FALSE,
           msg |-> "-", analyzer |-> NoAnalyzerCall,
           analyzer_before |-> NoAnalyzerCall]

\* a check_for_updates call: its argument, the tracker state it was made
\* in, its outcome, the analyzer call it made (none for a content that
\* line 312 turns away) and the analyzer call made before that one
Call(content, r, now) ==
    [called |-> TRUE, content |-> content, pre_hash |-> last_hash,
     pre_status |-> last_rooms_status, outcome |-> r.outcome,
     notify |-> r.notify, msg |-> r.msg,
     analyzer |-> IF Truthy(content) THEN AnalyzerCall(content, now)
                  ELSE NoAnalyzerCall,
     analyzer_before |-> IF cfu.analyzer.called THEN cfu.analyzer
                         ELSE cfu.analyzer_before]

NoEvent == [kind |-> "none", sent |-> "none", send |-> NotSent,
            post |-> NoPost]

BotInit ==
    /\ last_hash = None
    /\ last_rooms_status = None
    /\ consecutive_errors = 0
    /\ total_checks = 0
    /\ bot_pc = "init"
    /\ cfu = NoCall
    /\ bot_ev = NoEvent
    /\ fetch_streak = 0
    /\ streak_warnings = 0

\* lines 367-391: the startup notification, then the counters
BotStartup ==
    /\ bot_pc = "init"
    /\ \E post_ok \in PostOutcomes :
         bot_ev' = [kind |-> "startup", sent |-> "startup",
                    send |-> send_telegram_message(post_ok),
                    post |-> post_ok]
    /\ bot_pc' = "loop"
    /\ consecutive_errors' = 0
    /\ total_checks' = 0
    /\ UNCHANGED <<mon_vars, last_hash, last_rooms_status, cfu, fetch_streak,
                   streak_warnings>>

\* One iteration of `while True` (lines 394-469): the try body and its
\* `except Exception` handler.
BotCycle ==
    /\ bot_pc = "loop"
    /\ total_checks < MaxChecks
    /\ total_checks' = total_checks + 1
    /\ \E content \in FetchResults, post_ok \in PostOutcomes, now \in Clock :
         LET r == check_for_updates(last_hash, last_rooms_status, content, now)
             errors == consecutive_errors + 1
             sent == send_telegram_message(post_ok)
         IN
         IF Truthy(content)
         THEN /\ cfu' = Call(content, r, now)
              /\ last_hash' = r.last_hash
              /\ last_rooms_status' = r.last_rooms_status
              /\ fetch_streak' = 0
              /\ streak_warnings' = 0
              /\ IF r.outcome = "returned"
                 THEN \* lines 405-435
                      /\ consecutive_errors' = 0
                      /\ bot_ev' = IF r.notify
                                   THEN [kind |-> "checked", sent |-> "alert",
                                         send |-> sent, post |-> post_ok]
                                   ELSE [kind |-> "checked", sent |-> "none",
                                         send |-> NotSent, post |-> NoPost]
                 ELSE \* lines 450-465
                      IF error_alert_due(errors)
                      THEN /\ consecutive_errors' = 0
                           /\ bot_ev' = [kind |-> "raised",
                                         sent |-> "error_alert", send |-> sent,
                                         post |-> post_ok]
                      ELSE /\ consecutive_errors' = errors
                           /\ bot_ev' = [kind |-> "raised", sent |-> "none",
                                         send |-> NotSent, post |-> NoPost]
         ELSE \* lines 437-444
              /\ consecutive_errors' = errors
              /\ fetch_streak' = fetch_streak + 1
              /\ IF escalation_due(errors)
                 THEN /\ bot_ev' = [kind |-> "fetch_failed",
                                    sent |-> "warning", send |-> sent,
                                    post |-> post_ok]
                      /\ streak_warnings' = streak_warnings + 1
                 ELSE /\ bot_ev' = [kind |-> "fetch_failed", sent |-> "none",
                                    send |-> NotSent, post |-> NoPost]
                      /\ UNCHANGED streak_warnings
              /\ UNCHANGED <<last_hash, last_rooms_status, cfu>>
    /\ UNCHANGED <<mon_vars, bot_pc>>

\* lines 446-448: KeyboardInterrupt leaves the loop
BotInterrupt ==
    /\ bot_pc = "loop"
    /\ bot_pc' = "stopped"
    /\ UNCHANGED <<mon_vars, last_hash, last_rooms_status, consecutive_errors,
                   total_checks, cfu, bot_ev, fetch_streak, streak_warnings>>

BotNext == BotStartup \/ BotCycle \/ BotInterrupt

(***************************************************************************)
(* check_for_updates as a function of the tracker state and the content    *)
(***************************************************************************)
\* the tracker states of the data model: never observed, or both fields set
TrackerStates ==
    {<<None, None>>}
        \cup { <<Some(h), Some(b)>> : h \in Fingerprints, b \in BOOLEAN }

EvaluateInit ==
    /\ \E t \in TrackerStates : last_hash = t[1] /\ last_rooms_status = t[2]
    /\ consecutive_errors = 0
    /\ total_checks = 0
    /\ bot_pc = "evaluate"
    /\ cfu = NoCall
    /\ bot_ev = NoEvent
    /\ fetch_streak = 0
    /\ streak_warnings = 0

Evaluate ==
    /\ bot_pc = "evaluate"
    /\ \E content \in FetchResults, now \in Clock :
         LET r == check_for_updates(last_hash, last_rooms_status, content, now)
         IN  /\ cfu' = Call(content, r, now)
             /\ last_hash' = r.last_hash
             /\ last_rooms_status' = r.last_rooms_status
    /\ UNCHANGED <<mon_vars, consecutive_errors, total_checks, bot_pc, bot_ev,
                   fetch_streak, streak_warnings>>

EvaluateNext == Evaluate

(***************************************************************************)
(* DormMonitor  (src/monitor.py): state and threads                        *)
(***************************************************************************)
\* the request-handling threads of the control surface
Callers == {"c1", "c2"}

\* the request thread whose calls are followed in full; a second request
\* thread is followed where another request arrives while the first is
\* still being served
MainCallers == {"c1"}

\* the Thread objects start() creates, in creation order
WorkerIds == <<"w1", "w2">>

Workers == { WorkerIds[i] : i \in 1..Len(WorkerIds) }

Threads == Callers \cup Workers

\* the lock is free, or held by one thread; threading.Lock is not reentrant
Free == "free"

\* monitor_thread = None
NoThread == "none"

\* the fingerprints of the texts the monitored page can show
SiteHashes == {"h1", "h2", "h3"}

\* the fingerprints of the texts the page at url u can show: another page
\* has another text
PageHashes(u) == IF u = "u1" THEN {"h1", "h2"} ELSE {"h3"}

\* self.check_interval = 30 in __init__
default_check_interval == 30

\* max(10, check_interval) in configure
min_check_interval == 10

\* `if len(self.logs) > 100` in add_log
max_logs == 100

\* the arguments configure() is called with
ConfigArgs ==
    { [url |-> "u1", bot_token |-> "tok", chat_id |-> "chat", check_interval |-> 5],
      [url |-> "",   bot_token |-> "tok", chat_id |-> "chat", check_interval |-> 10],
      [url |-> "u2", bot_token |-> "",    chat_id |-> "chat", check_interval |-> 10],
      [url |-> "u1", bot_token |-> "tok", chat_id |-> "",     check_interval |-> 10] }

Max(a, b) == IF a >= b THEN a ELSE b

\* a start() that tests the url only
configured_url_only == url # ""

\* `self.url and self.bot_token and self.chat_id`
configured == url # "" /\ bot_token # "" /\ chat_id # ""

\* locals of a thread that is in none of the methods
NoLocals == [cur |-> "", msg |-> <<"", "">>,
             after_log |-> [kind |-> "goto", arg |-> ""],
             i |-> 0, n |-> 0, cyc |-> 0, notify |-> FALSE, prev |-> "",
             url |-> ""]

NoArgs == [url |-> "", bot_token |-> "", chat_id |-> "", check_interval |-> 0]

NoCallYet == [op |-> "none", ret |-> "none", args |-> NoArgs, seq |-> 0,
              incomplete |-> FALSE, was_running |-> FALSE,
              spawned_before |-> 0]

cfg_vars == <<url, bot_token, chat_id, check_interval, bot>>

status_vars == <<last_check_time, last_check_status, status_cycle>>

count_vars == <<nconfigures, ncalls, ncycles, nspawned>>

MonInit ==
    /\ url = ""
    /\ bot_token = ""
    /\ chat_id = ""
    /\ check_interval = default_check_interval
    /\ bot = "None"
    /\ previous_hash = ""
    /\ is_running = FALSE
    /\ monitor_thread = NoThread
    /\ logs = <<>>
    /\ last_check_time = 0
    /\ last_check_status = "Never checked"
    /\ status_cycle = 0
    /\ lock = Free
    /\ pc = [t \in Threads |-> IF t \in Callers THEN "idle" ELSE "unborn"]
    /\ loc = [t \in Threads |-> NoLocals]
    /\ call = [t \in Callers |-> NoCallYet]
    /\ nconfigures = 0
    /\ ncalls = 0
    /\ ncycles = 0
    /\ nspawned = 0

\* the thread continues at position p
Goto(t, p) == pc' = [pc EXCEPT ![t] = p]

\* a control-surface method returns `value` to its caller
Return(t, value) ==
    /\ pc' = [pc EXCEPT ![t] = "idle"]
    /\ call' = [call EXCEPT ![t].ret = value]

\* a call begins: what the call is, its place in the order of the calls, and
\* the state it is made in
NewCall(t, op, args) ==
    [op |-> op, ret |-> "pending", args |-> args,
     seq |-> nconfigures + ncalls + 1,
     incomplete |-> (url = "" \/ bot_token = "" \/ chat_id = ""),
     was_running |-> is_running, spawned_before |-> nspawned]

\* continuations of add_log and check_website
GotoK(p) == [kind |-> "goto", arg |-> p]

ReturnK(value) == [kind |-> "return", arg |-> value]

CwReturnK(value) == [kind |-> "cw_return", arg |-> value]

\* where a thread goes when check_website returns: the worker to the sleep
\* of monitor_loop (line 188), the caller out of manual_check (line 237)
AfterCheckWebsite(t) == IF t \in Workers THEN "ml_sleep_init" ELSE "idle"

\* the position a continuation leads to
KTarget(t, k) ==
    IF k.kind = "goto" THEN k.arg
    ELSE IF k.kind = "return" THEN "idle"
    ELSE AfterCheckWebsite(t)

\* the thread resumes at continuation k
Continue(t, k) ==
    /\ pc' = [pc EXCEPT ![t] = KTarget(t, k)]
    /\ call' = IF k.kind # "goto" /\ t \in Callers
               THEN [call EXCEPT ![t].ret = k.arg]
               ELSE call

(***************************************************************************)
(* DormMonitor.add_log  (src/monitor.py 72-93)                             *)
(***************************************************************************)
\* a buffer that is full keeps what it has and drops the new entry
append_log_keep_oldest(entries, entry) ==
    IF Len(entries) >= max_logs THEN entries ELSE Append(entries, entry)

\* lines 82-85: append, then drop the oldest entry beyond max_logs
append_log(entries, entry) ==
    LET appended == Append(entries, entry)
    IN  IF Len(appended) > max_logs THEN Tail(appended) ELSE appended

\* the call self.add_log(message, level), to continue at k
CallAddLog(t, message, level, k) ==
    /\ pc' = [pc EXCEPT ![t] = "add_log"]
    /\ loc' = [loc EXCEPT ![t].msg = <<message, level>>, ![t].after_log = k]

\* lines 81-85: `with self.lock` waits until the lock is free; the block
\* runs and the lock is released in the same step, since no other thread can
\* act on the guarded state while it is held
add_log(t) ==
    /\ pc[t] = "add_log"
    /\ lock = Free
    /\ logs' = append_log(logs, loc[t].msg)
    /\ Continue(t, loc[t].after_log)
    /\ loc' = IF loc[t].after_log.kind = "cw_return"
               THEN [loc EXCEPT ![t] = NoLocals]
               ELSE [loc EXCEPT ![t].msg = NoLocals.msg,
                                ![t].after_log = NoLocals.after_log]
    /\ UNCHANGED <<bot_vars, cfg_vars, previous_hash, is_running,
                   monitor_thread, status_vars, lock, count_vars>>

\* add_log(message, level) called on the monitor by its user (lines 72-79:
\* the entry is built, then the lock is asked for).  The message of the
\* n-th such call is n.
add_log_call(t) ==
    /\ pc[t] = "idle"
    /\ ncalls < MaxLogCalls
    /\ ncalls' = ncalls + 1
    /\ call' = [call EXCEPT ![t] = NewCall(t, "add_log", NoArgs)]
    /\ CallAddLog(t, ncalls + 1, "info", ReturnK("None"))
    /\ UNCHANGED <<bot_vars, cfg_vars, previous_hash, is_running,
                   monitor_thread, logs, status_vars, lock, nconfigures,
                   ncycles, nspawned>>

(***************************************************************************)
(* DormMonitor.get_logs, clear_logs  (src/monitor.py 67-70, 95-98)         *)
(***************************************************************************)
get_logs(t) ==
    /\ pc[t] = "idle"
    /\ call' = [call EXCEPT ![t] = NewCall(t, "get_logs", NoArgs)]
    /\ Goto(t, "get_logs_locked")
    /\ UNCHANGED <<bot_vars, cfg_vars, previous_hash, is_running,
                   monitor_thread, logs, status_vars, lock, loc, count_vars>>

\* lines 69-70: the copy of the list is returned
get_logs_locked(t) ==
    /\ pc[t] = "get_logs_locked"
    /\ lock = Free
    /\ Return(t, logs)
    /\ UNCHANGED <<bot_vars, cfg_vars, previous_hash, is_running,
                   monitor_thread, logs, status_vars, lock, loc, count_vars>>

clear_logs(t) ==
    /\ pc[t] = "idle"
    /\ call' = [call EXCEPT ![t] = NewCall(t, "clear_logs", NoArgs)]
    /\ Goto(t, "clear_logs_locked")
    /\ UNCHANGED <<bot_vars, cfg_vars, previous_hash, is_running,
                   monitor_thread, logs, status_vars, lock, loc, count_vars>>

\* lines 97-98
clear_logs_locked(t) ==
    /\ pc[t] = "clear_logs_locked"
    /\ lock = Free
    /\ logs' = <<>>
    /\ Return(t, "None")
    /\ UNCHANGED <<bot_vars, cfg_vars, previous_hash, is_running,
                   monitor_thread, status_vars, lock, loc, count_vars>>

(***************************************************************************)
(* DormMonitor.get_status  (src/monitor.py 57-65)                          *)
(***************************************************************************)
get_status(t) ==
    /\ pc[t] = "idle"
    /\ call' = [call EXCEPT ![t] = NewCall(t, "get_status", NoArgs)]
    /\ Goto(t, "get_status_locked")
    /\ UNCHANGED <<bot_vars, cfg_vars, previous_hash, is_running,
                   monitor_thread, logs, status_vars, lock, loc, count_vars>>

\* lines 59-65: the dict is built and returned with the lock held
get_status_locked(t) ==
    /\ pc[t] = "get_status_locked"
    /\ lock = Free
    /\ Return(t, [is_running |-> is_running,
                  last_check_time |-> last_check_time,
                  last_check_status |-> last_check_status,
                  configured |-> configured])
    /\ UNCHANGED <<bot_vars, cfg_vars, previous_hash, is_running,
                   monitor_thread, logs, status_vars, lock, loc, count_vars>>

(***************************************************************************)
(* DormMonitor.configure  (src/monitor.py 32-45)                           *)
(***************************************************************************)
\* a configure that drops the stored fingerprint when it is given another url
configure_new_baseline(t) ==
    /\ pc[t] = "idle"
    /\ nconfigures < MaxConfigures
    /\ nconfigures' = nconfigures + 1
    /\ \E args \in ConfigArgs :
         /\ call' = [call EXCEPT ![t] = NewCall(t, "configure", args)]
         /\ url' = args.url
         /\ previous_hash' = IF args.url # url THEN "" ELSE previous_hash
    /\ Goto(t, "configure_bot_token")
    /\ UNCHANGED <<bot_vars, bot_token, chat_id, check_interval, bot,
                   is_running, monitor_thread, logs,
                   status_vars, lock, loc, ncalls, ncycles, nspawned>>

\* line 34
configure(t) ==
    /\ pc[t] = "idle"
    /\ nconfigures < MaxConfigures
    /\ nconfigures' = nconfigures + 1
    /\ \E args \in ConfigArgs :
         /\ call' = [call EXCEPT ![t] = NewCall(t, "configure", args)]
         /\ url' = args.url
    /\ Goto(t, "configure_bot_token")
    /\ UNCHANGED <<bot_vars, bot_token, chat_id, check_interval, bot,
                   previous_hash, is_running, monitor_thread, logs,
                   status_vars, lock, loc, ncalls, ncycles, nspawned>>

\* line 35
configure_bot_token(t) ==
    /\ pc[t] = "configure_bot_token"
    /\ bot_token' = call[t].args.bot_token
    /\ Goto(t, "configure_chat_id")
    /\ UNCHANGED <<bot_vars, url, chat_id, check_interval, bot, previous_hash,
                   is_running, monitor_thread, logs, status_vars, lock, loc,
                   call, count_vars>>

\* line 36
configure_chat_id(t) ==
    /\ pc[t] = "configure_chat_id"
    /\ chat_id' = call[t].args.chat_id
    /\ Goto(t, "configure_check_interval")
    /\ UNCHANGED <<bot_vars, url, bot_token, check_interval, bot, previous_hash,
                   is_running, monitor_thread, logs, status_vars, lock, loc,
                   call, count_vars>>

\* lines 37-45
configure_check_interval(t) ==
    /\ pc[t] = "configure_check_interval"
    /\ check_interval' = Max(min_check_interval, call[t].args.check_interval)
    /\ bot' = IF bot_token # "" /\ chat_id # "" THEN "configured" ELSE "None"
    /\ CallAddLog(t, "Configuration updated successfully", "success",
                  ReturnK("None"))
    /\ UNCHANGED <<bot_vars, url, bot_token, chat_id, previous_hash, is_running,
                   monitor_thread, logs, status_vars, lock, call, count_vars>>

(***************************************************************************)
(* DormMonitor.start  (src/monitor.py 195-216)                             *)
(***************************************************************************)
\* lines 197-199
start(t) ==
    /\ pc[t] = "idle"
    /\ ncalls < MaxCalls
    /\ nspawned < Len(WorkerIds)
    /\ ncalls' = ncalls + 1
    /\ call' = [call EXCEPT ![t] = NewCall(t, "start", NoArgs)]
    /\ IF ~configured
       THEN CallAddLog(t, "Cannot start monitoring: Configuration incomplete",
                       "error", ReturnK("False"))
       ELSE Goto(t, "start_locked") /\ UNCHANGED loc
    /\ UNCHANGED <<bot_vars, cfg_vars, previous_hash, is_running, monitor_thread, logs,
                   status_vars, lock, nconfigures, ncycles, nspawned>>

\* lines 201-206, `with self.lock`.  The add_log of line 203 is called with
\* the lock still held by this thread (its `return False` would then leave
\* the block); otherwise the block ends and the lock is free again.
start_locked(t) ==
    /\ pc[t] = "start_locked"
    /\ lock = Free
    /\ IF is_running
       THEN /\ lock' = t
            /\ CallAddLog(t, "Monitoring is already running", "warning",
                          ReturnK("False"))
            /\ UNCHANGED is_running
       ELSE /\ is_running' = TRUE
            /\ Goto(t, "start_spawn")
            /\ UNCHANGED <<loc, lock>>
    /\ UNCHANGED <<bot_vars, cfg_vars, previous_hash, monitor_thread, logs,
                   status_vars, call, count_vars>>

\* lines 208-212: the Thread is created and started, or starting it raises
start_spawn(t) ==
    /\ pc[t] = "start_spawn"
    /\ \E started \in BOOLEAN :
         IF started
         THEN LET w == WorkerIds[nspawned + 1]
              IN  /\ monitor_thread' = w
                  /\ nspawned' = nspawned + 1
                  /\ pc' = [pc EXCEPT ![t] = "idle", ![w] = "ml_start"]
                  /\ call' = [call EXCEPT ![t].ret = "True"]
         ELSE /\ monitor_thread' = "unstarted"
              /\ Goto(t, "start_failed_locked")
              /\ UNCHANGED <<nspawned, call>>
    /\ UNCHANGED <<bot_vars, cfg_vars, previous_hash, is_running, logs, status_vars,
                   lock, loc, nconfigures, ncalls, ncycles>>

\* lines 213-216
start_failed_locked(t) ==
    /\ pc[t] = "start_failed_locked"
    /\ lock = Free
    /\ is_running' = FALSE
    /\ CallAddLog(t, "Error starting monitoring thread", "error",
                  ReturnK("False"))
    /\ UNCHANGED <<bot_vars, lock, cfg_vars, previous_hash, monitor_thread, logs, status_vars,
                   call, count_vars>>

(***************************************************************************)
(* DormMonitor.stop  (src/monitor.py 218-228)                              *)
(***************************************************************************)
stop(t) ==
    /\ pc[t] = "idle"
    /\ ncalls < MaxCalls
    /\ ncalls' = ncalls + 1
    /\ call' = [call EXCEPT ![t] = NewCall(t, "stop", NoArgs)]
    /\ Goto(t, "stop_locked")
    /\ UNCHANGED <<bot_vars, cfg_vars, previous_hash, is_running, monitor_thread, logs,
                   status_vars, lock, loc, nconfigures, ncycles, nspawned>>

\* a stop() that notes in the log that there was nothing to stop
stop_locked_with_note(t) ==
    /\ pc[t] = "stop_locked"
    /\ lock = Free
    /\ IF ~is_running
       THEN /\ CallAddLog(t, "Monitoring is not running", "info",
                          ReturnK("None"))
            /\ UNCHANGED <<is_running, call>>
       ELSE is_running' = FALSE /\ Goto(t, "stop_join") /\ UNCHANGED <<call, loc>>
    /\ UNCHANGED <<bot_vars, lock, cfg_vars, previous_hash, monitor_thread, logs, status_vars,
                   count_vars>>

\* lines 221-224
stop_locked(t) ==
    /\ pc[t] = "stop_locked"
    /\ lock = Free
    /\ IF ~is_running
       THEN Return(t, "None") /\ UNCHANGED is_running
       ELSE is_running' = FALSE /\ Goto(t, "stop_join") /\ UNCHANGED call
    /\ UNCHANGED <<bot_vars, lock, cfg_vars, previous_hash, monitor_thread, logs, status_vars,
                   loc, count_vars>>

\* Thread.is_alive()
is_alive(w) == w \in Workers /\ pc[w] \notin {"unborn", "done"}

\* join(timeout=5) gives up on a thread that stays longer than 5 seconds
\* where it is: inside requests.get (timeout=30) or requests.post (timeout=10)
join_times_out(w) == w \in Workers /\ pc[w] \in {"cw_fetch", "tg_post"}

\* lines 227-228
stop_join(t) ==
    /\ pc[t] = "stop_join"
    /\ ~is_alive(monitor_thread) \/ join_times_out(monitor_thread)
    /\ Return(t, "None")
    /\ UNCHANGED <<bot_vars, cfg_vars, previous_hash, is_running, monitor_thread, logs,
                   status_vars, lock, loc, count_vars>>

(***************************************************************************)
(* DormMonitor.manual_check  (src/monitor.py 230-237)                      *)
(***************************************************************************)
manual_check(t) ==
    /\ pc[t] = "idle"
    /\ ncalls < MaxCalls
    /\ ncycles < MaxCycles
    /\ ncalls' = ncalls + 1
    /\ call' = [call EXCEPT ![t] = NewCall(t, "manual_check", NoArgs)]
    /\ IF url = ""
       THEN /\ CallAddLog(t, "Cannot perform manual check: URL not configured",
                          "error", ReturnK("False"))
            /\ UNCHANGED ncycles
       ELSE /\ pc' = [pc EXCEPT ![t] = "add_log"]
            /\ loc' = [loc EXCEPT ![t].msg = <<"Performing manual check...",
                                               "info">>,
                                  ![t].after_log = GotoK("cw_start"),
                                  ![t].cyc = ncycles + 1]
            /\ ncycles' = ncycles + 1
    /\ UNCHANGED <<bot_vars, cfg_vars, previous_hash, is_running, monitor_thread, logs,
                   status_vars, lock, nconfigures, nspawned>>

(***************************************************************************)
(* DormMonitor.check_website  (src/monitor.py 123-178)                     *)
(***************************************************************************)
\* check_website returns `value`: the locals of the cycle are dropped
CwReturn(t, value) ==
    /\ pc' = [pc EXCEPT ![t] = AfterCheckWebsite(t)]
    /\ call' = IF t \in Callers THEN [call EXCEPT ![t].ret = value] ELSE call
    /\ loc' = [loc EXCEPT ![t] = NoLocals]

\* what requests.get and the parsing of lines 131-138 end in: the fingerprint
\* of the text, a RequestException, or another exception
FetchOutcomes == SiteHashes \cup {"RequestException", "Exception"}

\* lines 125-131: the url test, then the request is sent to that url
cw_start(t) ==
    /\ pc[t] = "cw_start"
    /\ IF url = ""
       THEN CallAddLog(t, "Cannot check website: URL not configured", "error",
                       CwReturnK("False"))
       ELSE /\ Goto(t, "cw_fetch")
            /\ loc' = [loc EXCEPT ![t].url = url]
    /\ UNCHANGED <<bot_vars, cfg_vars, previous_hash, is_running, monitor_thread, logs,
                   status_vars, lock, call, count_vars>>

\* lines 131-138: the response arrives and is hashed, or an exception is
\* raised and its handler (lines 165-167, 172-174) logs it
cw_fetch(t) ==
    /\ pc[t] = "cw_fetch"
    /\ \E outcome \in FetchOutcomes :
         IF outcome \in SiteHashes
         THEN /\ outcome \in PageHashes(loc[t].url)
              /\ loc' = [loc EXCEPT ![t].cur = outcome, ![t].url = ""]
              /\ Goto(t, "cw_time_locked")
         ELSE IF outcome = "RequestException"
         THEN CallAddLog(t, "Could not connect to the website", "error",
                         GotoK("cw_conn_locked"))
         ELSE CallAddLog(t, "An unexpected error occurred", "error",
                         GotoK("cw_err_locked"))
    /\ UNCHANGED <<bot_vars, cfg_vars, previous_hash, is_running, monitor_thread, logs,
                   status_vars, lock, call, count_vars>>

\* lines 140-141
cw_time_locked(t) ==
    /\ pc[t] = "cw_time_locked"
    /\ lock = Free
    /\ last_check_time' = loc[t].cyc
    /\ Goto(t, "cw_compare")
    /\ UNCHANGED <<bot_vars, lock, cfg_vars, previous_hash, is_running, monitor_thread, logs,
                   last_check_status, status_cycle, loc, call, count_vars>>

\* a comparison that takes every stored fingerprint for a change
hash_changed_always(current_hash, stored_hash) == TRUE

\* `current_hash != self.previous_hash`, the second operand of line 144
hash_changed(current_hash, stored_hash) == current_hash # stored_hash

\* a cycle that compares its fingerprint with the stored one without testing
\* that one is stored
cw_compare_without_baseline(t) ==
    /\ pc[t] = "cw_compare"
    /\ Goto(t, "cw_compare_hash")
    /\ loc' = [loc EXCEPT ![t].prev = previous_hash]
    /\ UNCHANGED <<bot_vars, cfg_vars, previous_hash, is_running, monitor_thread, logs,
                   status_vars, lock, call, count_vars>>

\* line 144, first operand: `self.previous_hash` is loaded and tested
cw_compare(t) ==
    /\ pc[t] = "cw_compare"
    /\ IF previous_hash # ""
       THEN Goto(t, "cw_compare_hash")
       ELSE Goto(t, "cw_same_locked")
    /\ loc' = [loc EXCEPT ![t].prev = previous_hash]
    /\ UNCHANGED <<bot_vars, cfg_vars, previous_hash, is_running, monitor_thread, logs,
                   status_vars, lock, call, count_vars>>

\* line 144, second operand: `self.previous_hash` is loaded again and
\* compared; line 145 when it differs
cw_compare_hash(t) ==
    /\ pc[t] = "cw_compare_hash"
    /\ IF hash_changed(loc[t].cur, previous_hash)
       THEN /\ pc' = [pc EXCEPT ![t] = "add_log"]
            /\ loc' = [loc EXCEPT ![t].prev = previous_hash,
                                  ![t].notify = TRUE,
                                  ![t].msg = <<"Change detected on the website!",
                                               "success">>,
                                  ![t].after_log = GotoK("cw_changed_locked")]
       ELSE /\ Goto(t, "cw_same_locked")
            /\ loc' = [loc EXCEPT ![t].prev = previous_hash]
    /\ UNCHANGED <<bot_vars, cfg_vars, previous_hash, is_running, monitor_thread, logs,
                   status_vars, lock, call, count_vars>>

\* lines 146-147, then the call of line 151
cw_changed_locked(t) ==
    /\ pc[t] = "cw_changed_locked"
    /\ lock = Free
    /\ last_check_status' = "Change detected!"
    /\ status_cycle' = loc[t].cyc
    /\ Goto(t, "tg_start")
    /\ UNCHANGED <<bot_vars, lock, cfg_vars, previous_hash, is_running, monitor_thread, logs,
                   last_check_time, loc, call, count_vars>>

\* lines 154-155
cw_same_locked(t) ==
    /\ pc[t] = "cw_same_locked"
    /\ lock = Free
    /\ last_check_status' = "No changes detected"
    /\ status_cycle' = loc[t].cyc
    /\ Goto(t, "cw_same_log")
    /\ UNCHANGED <<bot_vars, lock, cfg_vars, previous_hash, is_running, monitor_thread, logs,
                   last_check_time, loc, call, count_vars>>

\* lines 156-159
cw_same_log(t) ==
    /\ pc[t] = "cw_same_log"
    /\ IF previous_hash = ""
       THEN CallAddLog(t, "Initial website content captured", "info",
                       GotoK("cw_store"))
       ELSE CallAddLog(t, "No changes detected", "info", GotoK("cw_store"))
    /\ UNCHANGED <<bot_vars, cfg_vars, previous_hash, is_running, monitor_thread, logs,
                   status_vars, lock, call, count_vars>>

\* what send_telegram_message logs when it returns False (lines 103, 120)
SendFailureLogs ==
    { <<"Cannot send Telegram message: Bot not configured", "error">>,
      <<"Error sending Telegram message", "error">> }

\* a cycle that keeps the old fingerprint when its notification was not
\* sent, so that the change is found again by the next cycle
cw_store_if_sent(t) ==
    /\ pc[t] = "cw_store"
    /\ previous_hash' = IF /\ loc[t].notify
                           /\ logs # <<>>
                           /\ logs[Len(logs)] \in SendFailureLogs
                        THEN previous_hash
                        ELSE loc[t].cur
    /\ CwReturn(t, "True")
    /\ UNCHANGED <<bot_vars, cfg_vars, is_running, monitor_thread, logs, status_vars,
                   lock, count_vars>>

\* lines 162-163
cw_store(t) ==
    /\ pc[t] = "cw_store"
    /\ previous_hash' = loc[t].cur
    /\ CwReturn(t, "True")
    /\ UNCHANGED <<bot_vars, cfg_vars, is_running, monitor_thread, logs, status_vars,
                   lock, count_vars>>

\* a handler that drops the stored fingerprint when the site is unreachable
cw_conn_locked_forgetting(t) ==
    /\ pc[t] = "cw_conn_locked"
    /\ lock = Free
    /\ last_check_time' = loc[t].cyc
    /\ last_check_status' = "Connection error"
    /\ status_cycle' = loc[t].cyc
    /\ previous_hash' = ""
    /\ CwReturn(t, "False")
    /\ UNCHANGED <<bot_vars, lock, cfg_vars, is_running, monitor_thread, logs,
                   count_vars>>

\* lines 168-171
cw_conn_locked(t) ==
    /\ pc[t] = "cw_conn_locked"
    /\ lock = Free
    /\ last_check_time' = loc[t].cyc
    /\ last_check_status' = "Connection error"
    /\ status_cycle' = loc[t].cyc
    /\ CwReturn(t, "False")
    /\ UNCHANGED <<bot_vars, lock, cfg_vars, previous_hash, is_running, monitor_thread, logs,
                   count_vars>>

\* a handler that takes an unexpected error for fatal and stops monitoring
cw_err_locked_stopping(t) ==
    /\ pc[t] = "cw_err_locked"
    /\ lock = Free
    /\ last_check_time' = loc[t].cyc
    /\ last_check_status' = "Error"
    /\ status_cycle' = loc[t].cyc
    /\ is_running' = FALSE
    /\ CwReturn(t, "False")
    /\ UNCHANGED <<bot_vars, lock, cfg_vars, previous_hash, monitor_thread, logs,
                   count_vars>>

\* lines 175-178
cw_err_locked(t) ==
    /\ pc[t] = "cw_err_locked"
    /\ lock = Free
    /\ last_check_time' = loc[t].cyc
    /\ last_check_status' = "Error"
    /\ status_cycle' = loc[t].cyc
    /\ CwReturn(t, "False")
    /\ UNCHANGED <<bot_vars, lock, cfg_vars, previous_hash, is_running, monitor_thread, logs,
                   count_vars>>

(***************************************************************************)
(* DormMonitor.send_telegram_message  (src/monitor.py 100-121)             *)
(***************************************************************************)
\* lines 102-104, or the request of line 114 is sent
tg_start(t) ==
    /\ pc[t] = "tg_start"
    /\ IF bot_token = "" \/ chat_id = ""
       THEN CallAddLog(t, "Cannot send Telegram message: Bot not configured",
                       "error", GotoK("cw_store"))
       ELSE Goto(t, "tg_post") /\ UNCHANGED loc
    /\ UNCHANGED <<bot_vars, cfg_vars, previous_hash, is_running, monitor_thread, logs,
                   status_vars, lock, call, count_vars>>

\* lines 114-121: the post succeeds or raises
tg_post(t) ==
    /\ pc[t] = "tg_post"
    /\ \E delivered \in BOOLEAN :
         IF delivered
         THEN CallAddLog(t, "Telegram notification sent successfully",
                         "success", GotoK("cw_store"))
         ELSE CallAddLog(t, "Error sending Telegram message", "error",
                         GotoK("cw_store"))
    /\ UNCHANGED <<bot_vars, cfg_vars, previous_hash, is_running, monitor_thread, logs,
                   status_vars, lock, call, count_vars>>

(***************************************************************************)
(* DormMonitor.monitor_loop  (src/monitor.py 180-193)                      *)
(***************************************************************************)
\* line 182
ml_start(w) ==
    /\ pc[w] = "ml_start"
    /\ CallAddLog(w, "Monitoring started", "success", GotoK("ml_loop"))
    /\ UNCHANGED <<bot_vars, cfg_vars, previous_hash, is_running, monitor_thread, logs,
                   status_vars, lock, call, count_vars>>

\* line 184 `while self.is_running`, then line 185 or line 193.  The loop
\* is followed for `bound` executions of check_website.
ml_loop_upto(w, bound) ==
    /\ pc[w] = "ml_loop"
    /\ IF is_running
       THEN /\ ncycles < bound
            /\ ncycles' = ncycles + 1
            /\ loc' = [loc EXCEPT ![w].cyc = ncycles + 1]
            /\ Goto(w, "cw_start")
       ELSE /\ CallAddLog(w, "Monitoring stopped", "info", GotoK("done"))
            /\ UNCHANGED ncycles
    /\ UNCHANGED <<bot_vars, cfg_vars, previous_hash, is_running, monitor_thread, logs,
                   status_vars, lock, call, nconfigures, ncalls, nspawned>>

ml_loop(w) == ml_loop_upto(w, MaxCycles)

\* the loop of a worker that runs alone
ml_loop_alone(w) == ml_loop_upto(w, MaxWorkerCycles)

\* line 188: range(self.check_interval) is evaluated once
ml_sleep_init(w) ==
    /\ pc[w] = "ml_sleep_init"
    /\ loc' = [loc EXCEPT ![w].n = check_interval, ![w].i = 0]
    /\ Goto(w, "ml_sleep")
    /\ UNCHANGED <<bot_vars, cfg_vars, previous_hash, is_running, monitor_thread, logs,
                   status_vars, lock, call, count_vars>>

\* lines 188-190: the for loop has a second left and the flag is still set
keeps_sleeping(i, n, running) == i < n /\ running

\* lines 188-191: one iteration of the for loop, or its end
ml_sleep(w) ==
    /\ pc[w] = "ml_sleep"
    /\ IF keeps_sleeping(loc[w].i, loc[w].n, is_running)
       THEN /\ loc' = [loc EXCEPT ![w].i = @ + 1]
            /\ UNCHANGED pc
       ELSE /\ loc' = [loc EXCEPT ![w] = NoLocals]
            /\ Goto(w, "ml_loop")
    /\ UNCHANGED <<bot_vars, cfg_vars, previous_hash, is_running, monitor_thread, logs,
                   status_vars, lock, call, count_vars>>

MonNext ==
    \/ \E t \in MainCallers :
         \/ configure(t) \/ configure_bot_token(t) \/ configure_chat_id(t)
         \/ configure_check_interval(t)
         \/ start(t) \/ start_locked(t) \/ start_spawn(t)
         \/ start_failed_locked(t)
         \/ stop(t) \/ stop_locked(t) \/ stop_join(t)
         \/ manual_check(t)
    \/ \E t \in Threads :
         \/ add_log(t)
         \/ cw_start(t) \/ cw_fetch(t) \/ cw_time_locked(t) \/ cw_compare(t)
         \/ cw_compare_hash(t) \/ cw_changed_locked(t) \/ cw_same_locked(t)
         \/ cw_same_log(t) \/ cw_store(t) \/ cw_conn_locked(t)
         \/ cw_err_locked(t) \/ tg_start(t) \/ tg_post(t)
    \/ \E w \in Workers :
         ml_start(w) \/ ml_loop(w) \/ ml_sleep_init(w) \/ ml_sleep(w)

(***************************************************************************)
(* Specifications                                                          *)
(***************************************************************************)
\* both objects as their constructors leave them
Init == BotInit /\ MonInit

\* a tracker state of the data model, ready for a check_for_updates call
InitEvaluate == EvaluateInit /\ MonInit

SpecBot == Init /\ [][BotNext]_vars

SpecEvaluate == InitEvaluate /\ [][EvaluateNext]_vars

SpecMonitor == Init /\ [][MonNext]_vars

\* the log buffer under add_log, clear_logs and get_logs calls
LogsNext ==
    \E t \in MainCallers :
        \/ add_log_call(t) \/ add_log(t)
        \/ clear_logs(t) \/ clear_logs_locked(t)
        \/ get_logs(t) \/ get_logs_locked(t)

SpecLogs == Init /\ [][LogsNext]_vars

\* the steps of a thread inside add_log, check_website and
\* send_telegram_message
cycle_step(t) ==
    \/ add_log(t)
    \/ cw_start(t) \/ cw_fetch(t) \/ cw_time_locked(t) \/ cw_compare(t)
    \/ cw_compare_hash(t) \/ cw_changed_locked(t) \/ cw_same_locked(t)
    \/ cw_same_log(t) \/ cw_store(t) \/ cw_conn_locked(t)
    \/ cw_err_locked(t) \/ tg_start(t) \/ tg_post(t)

\* the steps of a caller inside configure, start and stop
caller_step(t) ==
    \/ configure_bot_token(t) \/ configure_chat_id(t)
    \/ configure_check_interval(t)
    \/ start_locked(t) \/ start_spawn(t) \/ start_failed_locked(t)
    \/ stop_locked(t) \/ stop_join(t)

\* the steps of a worker in monitor_loop
worker_step(w) ==
    ml_start(w) \/ ml_loop(w) \/ ml_sleep_init(w) \/ ml_sleep(w)

\* the steps of thread t inside a method it has entered.  The interpreter
\* keeps scheduling a thread that can run; when the next call is made is up
\* to the users of the control surface.
thread_step(t) ==
    \/ cycle_step(t)
    \/ t \in Callers /\ caller_step(t)
    \/ t \in Workers /\ worker_step(t)

\* the first configure() of a DormMonitor
configure_first(t) == nconfigures = 0 /\ configure(t)

\* the monitor is configured once and every other call is made as in
\* MonNext; a second request thread calls stop()
FairNext ==
    \/ \E t \in MainCallers :
         configure_first(t) \/ start(t) \/ stop(t) \/ manual_check(t)
    \/ \E t \in Callers \ MainCallers : stop(t)
    \/ \E t \in Callers : caller_step(t)
    \/ \E t \in Threads : cycle_step(t)
    \/ \E w \in Workers : worker_step(w)

SpecMonitorFair ==
    Init /\ [][FairNext]_vars /\ \A t \in Threads : WF_vars(thread_step(t))

\* the monitor is configured once and started, no stop() and no manual
\* check is made: one worker at a time runs its cycles one after the other,
\* and the status is asked for at any moment
WorkerNext ==
    \/ \E t \in MainCallers : configure_first(t) \/ start(t)
    \/ \E t \in MainCallers : get_status(t) \/ get_status_locked(t)
    \/ \E t \in MainCallers :
         \/ configure_bot_token(t) \/ configure_chat_id(t)
         \/ configure_check_interval(t)
         \/ start_locked(t) \/ start_spawn(t) \/ start_failed_locked(t)
    \/ \E t \in Threads :
         \/ add_log(t)
         \/ cw_start(t) \/ cw_fetch(t) \/ cw_time_locked(t) \/ cw_compare(t)
         \/ cw_compare_hash(t) \/ cw_changed_locked(t) \/ cw_same_locked(t)
         \/ cw_same_log(t) \/ cw_store(t) \/ cw_conn_locked(t)
         \/ cw_err_locked(t) \/ tg_start(t) \/ tg_post(t)
    \/ \E w \in Workers :
         ml_start(w) \/ ml_loop_alone(w) \/ ml_sleep_init(w) \/ ml_sleep(w)

SpecWorker == Init /\ [][WorkerNext]_vars

\* clear_logs() called once the monitor has been stopped
clear_logs_after_stop(t) == call[t].op = "stop" /\ clear_logs(t)

\* start() called when no worker of an earlier start() is left
start_after_exit(t) == ~is_alive(monitor_thread) /\ start(t)

\* the life of a monitor: it is configured, started, stopped, its log is
\* cleared, it is configured again at any moment and started again once its
\* worker has gone, while its workers run their cycles; no manual check is
\* made
LifecycleNext ==
    \/ \E t \in MainCallers :
         \/ configure(t) \/ start_after_exit(t) \/ stop(t)
         \/ clear_logs_after_stop(t)
    \/ \E t \in MainCallers :
         \/ configure_bot_token(t) \/ configure_chat_id(t)
         \/ configure_check_interval(t)
         \/ start_locked(t) \/ start_spawn(t) \/ start_failed_locked(t)
         \/ stop_locked(t) \/ stop_join(t)
         \/ clear_logs_locked(t)
    \/ \E t \in Threads :
         \/ add_log(t)
         \/ cw_start(t) \/ cw_fetch(t) \/ cw_time_locked(t) \/ cw_compare(t)
         \/ cw_compare_hash(t) \/ cw_changed_locked(t) \/ cw_same_locked(t)
         \/ cw_same_log(t) \/ cw_store(t) \/ cw_conn_locked(t)
         \/ cw_err_locked(t) \/ tg_start(t) \/ tg_post(t)
    \/ \E w \in Workers :
         ml_start(w) \/ ml_loop(w) \/ ml_sleep_init(w) \/ ml_sleep(w)

SpecLifecycle == Init /\ [][LifecycleNext]_vars

(***************************************************************************)
(* Claims about check_for_updates and run_monitoring  (src/main.py)        *)
(***************************************************************************)
\* C1 (as claimed): a check_for_updates call made on a fetched page while no
\* prior observation is stored returns without asking for a notification and
\* records the baseline (fingerprint and availability of that page).
C1_FirstCycleRecordsBaseline ==
    (cfu.called /\ Truthy(cfu.content) /\ cfu.pre_hash = None)
        => /\ cfu.outcome = "returned"
           /\ ~cfu.notify
           /\ last_hash = Some(md5(cfu.content))
           /\ last_rooms_status \in {Some(TRUE), Some(FALSE)}

\* the availability signal of a page is true whenever the score collected
\* before line 274 already meets the threshold: no later line lowers it
AvailableBeforeLinks(content) ==
    score_before_links(content) >= Halves(AvailabilityThreshold)

RoomsAvailableReasons ==
    {"NEW ROOMS AVAILABLE (Status changed)", "ROOMS AVAILABLE (Content updated)"}

C4_TrackerFollowsObservation ==
    (cfu.called /\ Truthy(cfu.content))
        => /\ last_hash = Some(md5(cfu.content))
           /\ last_rooms_status # None

\* C5: last_hash and last_rooms_status are both unset or both set, after
\* every cycle: checked, failed to fetch, or ended by an exception.
C5_TrackerFieldsSetTogether ==
    (last_hash = None) <=> (last_rooms_status = None)

\* C5 witness: cycles have run, one of them ended by an exception raised
\* inside check_for_updates, and the two fields still agree
C5_Witness ==
    /\ total_checks >= 2
    /\ cfu.called /\ cfu.outcome = "raised"
    /\ last_hash = None /\ last_rooms_status = None

\* C6 (as claimed): after 5 consecutive fetch failures exactly one escalation
\* has been sent and the consecutive-failure counter is back at 0.
C6_EscalationResetsCounter ==
    fetch_streak = 5 => (streak_warnings = 1 /\ consecutive_errors = 0)

\* C6 (amended): a fetch failure sends the escalation exactly when it brings
\* the counter to 5; the escalation does not reset the counter, which goes
\* on counting, so a streak of fetch failures sends at most one escalation,
\* and exactly one once it has counted from 0 to 5.
C6_EscalationAtFiveWithoutReset ==
    /\ bot_ev.kind = "fetch_failed"
         => /\ (bot_ev.sent = "warning") <=> (consecutive_errors = 5)
            /\ consecutive_errors >= fetch_streak
    /\ streak_warnings <= 1
    /\ (fetch_streak >= 5 /\ consecutive_errors = fetch_streak)
         => streak_warnings = 1

\* C6 witness: the fifth fetch failure in a row, counted from 0, has just
\* sent the escalation and the counter stands at 5
C6_Witness ==
    /\ bot_ev.kind = "fetch_failed" /\ bot_ev.sent = "warning"
    /\ fetch_streak = 5 /\ streak_warnings = 1
    /\ consecutive_errors = 5

(***************************************************************************)
(* Claims about DormMonitor  (src/monitor.py)                              *)
(***************************************************************************)
\* the positions of a thread that is on the notification path of a cycle
NotifyPcs == {"cw_changed_locked", "tg_start", "tg_post"}

\* C3: a cycle whose fingerprint equals the stored fingerprint it compares
\* with never takes the notification path.
C3_SameFingerprintNeverNotifies ==
    \A t \in Threads :
        (loc[t].cur # "" /\ loc[t].prev = loc[t].cur)
            => (~loc[t].notify /\ pc[t] \notin NotifyPcs)

\* C3 witness: a cycle has compared its fingerprint with an equal stored
\* one and is on the "No changes detected" path
C3_Witness ==
    \E t \in Threads :
        /\ loc[t].cur # "" /\ loc[t].prev = loc[t].cur
        /\ pc[t] = "cw_same_locked"

\* C7: a start() made while url, bot token or chat id is empty returns
\* False, leaves is_running as it was and starts no thread.
C7_StartIncompleteFails ==
    \A t \in Callers :
        (call[t].op = "start" /\ call[t].incomplete)
            => /\ pc[t] \in {"add_log", "idle"}
               /\ pc[t] = "idle" => call[t].ret = "False"
               /\ is_running = call[t].was_running
               /\ nspawned = call[t].spawned_before

\* C7 witness: such a start() has returned on a stopped monitor
C7_Witness ==
    \E t \in Callers :
        /\ call[t].op = "start" /\ call[t].incomplete
        /\ pc[t] = "idle" /\ call[t].ret = "False"
        /\ ~is_running /\ nspawned = 0

\* C8 (as claimed): a start() made while the monitor is running gets to
\* return False: it never waits for the lock it holds itself.
C8_StartWhileRunningReturns ==
    \A t \in Callers :
        (call[t].op = "start" /\ call[t].was_running)
            => ~(pc[t] = "add_log" /\ lock = t)

\* the positions inside check_website between the request and the return
CyclePcs == {"cw_fetch", "cw_time_locked", "cw_compare", "cw_compare_hash",
             "cw_changed_locked", "cw_same_locked", "cw_same_log", "cw_store",
             "cw_conn_locked", "cw_err_locked", "tg_start", "tg_post"}

\* C9 (as claimed): no two monitor_loop threads are inside a cycle at once.
C9_OneWorkerRunsCycles ==
    Cardinality({ w \in Workers : pc[w] \in CyclePcs }) <= 1

\* the positions of check_website after its first load of previous_hash
\* (line 144) and before the store of line 162
ReadNotWrittenPcs == {"cw_compare_hash", "cw_changed_locked", "cw_same_locked",
                      "cw_same_log", "cw_store", "tg_start", "tg_post"}

\* C10 (as claimed): a manual_check and a worker cycle never both have read
\* previous_hash before either has written it.
C10_ManualCheckNeverOverlaps ==
    \A c \in Callers, w \in Workers :
        ~(pc[c] \in ReadNotWrittenPcs /\ pc[w] \in ReadNotWrittenPcs)

\* the positions where a thread waits to enter a `with self.lock` block
LockWaitPcs == {"add_log", "get_logs_locked", "clear_logs_locked",
                "get_status_locked", "start_locked", "start_failed_locked", "stop_locked",
                "cw_time_locked", "cw_changed_locked", "cw_same_locked",
                "cw_conn_locked", "cw_err_locked"}

\* C11 (as claimed): no thread waits for the monitor lock for ever: whenever
\* a thread waits for the lock, the lock is free or its holder is running on
\* towards the end of its block, not itself waiting for the lock.
C11_NoThreadWaitsForever ==
    \A t \in Threads :
        pc[t] \in LockWaitPcs => (lock = Free \/ pc[lock] \notin LockWaitPcs)

\* the shared mutable state of DormMonitor that the claim names
shared_state == <<is_running, previous_hash, logs, last_check_time,
                  last_check_status, url, bot_token, chat_id, check_interval>>

\* C12 (as claimed): every step that writes the shared state is the step of
\* a thread inside a `with self.lock` block.
C12_WritesUnderLock ==
    [][shared_state' # shared_state
         => \E t \in Threads : pc[t] \in LockWaitPcs /\ pc'[t] # pc[t]]_vars

\* every monitor_loop thread that was started has left its loop
AllWorkersExited == \A w \in Workers : ~is_alive(w)

\* the places a call can have in the order of the calls
CallSeqs == 1..(MaxConfigures + MaxCalls)

\* the call number s is a stop() made while is_running was set
StopCalledWhileRunning(s) ==
    \E c \in Callers :
        call[c].op = "stop" /\ call[c].seq = s /\ call[c].was_running

\* a start() was called after call number s
StartFollows(s) ==
    \E c \in Callers : call[c].op = "start" /\ call[c].seq > s

\* C13: once the flag is cleared a sleeping worker sleeps no further second
\* and leaves the sleep phase, a worker at the loop test starts no cycle, and
\* a worker leaves the loop only by logging "Monitoring stopped"; and after a
\* stop() made while running, unless a start() follows, every worker
\* eventually has left its loop.
C13_CooperativeStop ==
    /\ [][\A w \in Workers :
            /\ (pc[w] = "ml_sleep" /\ ~is_running)
                 => \/ pc'[w] = "ml_loop"
                    \/ pc'[w] = "ml_sleep" /\ loc'[w] = loc[w]
            /\ (pc[w] = "ml_loop" /\ ~is_running)
                 => \/ pc'[w] = "ml_loop"
                    \/ /\ pc'[w] = "add_log"
                       /\ loc'[w].msg = <<"Monitoring stopped", "info">>
                       /\ loc'[w].after_log = GotoK("done")
            /\ (pc[w] # "done" /\ pc'[w] = "done")
                 => logs' = append_log(logs, <<"Monitoring stopped", "info">>)
         ]_vars
    /\ \A s \in CallSeqs :
         StopCalledWhileRunning(s) ~> (AllWorkersExited \/ StartFollows(s))

\* what a stop() may not touch when there is nothing to stop
stop_visible_state == <<is_running, monitor_thread, previous_hash,
                        last_check_time, last_check_status, logs, cfg_vars>>

\* C14: no step of a stop() called while is_running is clear changes the
\* run state, the stored fingerprint, the status fields, the log buffer or
\* the configuration; the call does not wait for a thread and returns None.
\* A second stop() after a stop() is such a call.
C14_StopIsIdempotent ==
    [][\A t \in Callers :
         (call'[t].op = "stop" /\ ~call'[t].was_running /\ pc'[t] # pc[t])
             => /\ UNCHANGED stop_visible_state
                /\ pc'[t] \in {"stop_locked", "idle"}
                /\ pc'[t] = "idle" => call'[t].ret = "None"]_vars

\* C14 witness: a monitor that was started has been stopped, and a further
\* stop(), called with the flag already clear, has returned
C14_Witness ==
    \E t \in Callers :
        /\ call[t].op = "stop" /\ ~call[t].was_running
        /\ pc[t] = "idle" /\ call[t].ret = "None"
        /\ nspawned >= 1 /\ ~is_running

\* C15 (as claimed): a manual_check() called while url, bot token or chat id
\* is empty runs no cycle and returns False.
C15_ManualCheckNeedsConfiguration ==
    \A t \in Callers :
        (call[t].op = "manual_check" /\ call[t].incomplete)
            => /\ pc[t] \notin CyclePcs
               /\ pc[t] = "idle" => call[t].ret = "False"

\* C16 (as claimed): between a successful start() and the next stop(), while
\* is_running stays set, no step changes the url, the credentials or the
\* check interval that the worker reads.
C16_ConfigurationFixedWhileRunning ==
    [][(is_running /\ is_running')
         => UNCHANGED <<url, bot_token, chat_id, check_interval>>]_vars

\* the arguments the contract of configure accepts: no required field is
\* empty and the interval is not below the floor
accepted_by_contract(args) ==
    /\ args.url # "" /\ args.bot_token # "" /\ args.chat_id # ""
    /\ args.check_interval >= min_check_interval

\* C17 (as claimed): no step of a configure() whose arguments the contract
\* rejects changes the stored configuration, and the call ends in a
\* configuration error.
C17_ConfigureRejectsInvalid ==
    [][\A t \in Callers :
         (/\ call'[t].op = "configure"
          /\ ~accepted_by_contract(call'[t].args)
          /\ pc'[t] # pc[t])
             => /\ UNCHANGED <<url, bot_token, chat_id, check_interval>>
                /\ pc'[t] = "idle" => call'[t].ret = "ConfigurationError"]_vars

(***************************************************************************)
(* Claims about STWDOTelegramBot.send_telegram_message  (src/main.py)      *)
(***************************************************************************)
\* the first attempt the network lets through, 0 when it lets none through
first_delivered(post_ok) ==
    IF \E a \in 1..max_retries : post_ok[a]
    THEN CHOOSE a \in 1..max_retries :
             post_ok[a] /\ \A b \in 1..(a - 1) : ~post_ok[b]
    ELSE 0

\* C18: whenever the loop has sent a message, send_telegram_message made
\* between 1 and max_retries attempts; it returned True at the first attempt
\* that got through, having made no further attempt and having slept once
\* before each attempt but the first; it returned False exactly when no
\* attempt got through, after max_retries attempts and max_retries - 1
\* sleeps (none after the last attempt).
C18_NotifierRetryBound ==
    bot_ev.sent # "none"
        => LET r == bot_ev.send
               first == first_delivered(bot_ev.post)
           IN  /\ r.attempts \in 1..max_retries
               /\ r.ok <=> first # 0
               /\ r.ok => (r.attempts = first /\ r.sleeps = first - 1)
               /\ ~r.ok => (r.attempts = max_retries
                            /\ r.sleeps = max_retries - 1)

\* C18 witness: an escalation warning to which the network refused the
\* first attempt and let the second through
C18_Witness ==
    /\ bot_ev.sent = "warning"
    /\ ~bot_ev.post[1] /\ bot_ev.post[2]
    /\ bot_ev.send = [ok |-> TRUE, attempts |-> 2, sleeps |-> 1]

(***************************************************************************)
(* Claims about the monitoring loop of DormMonitor  (src/monitor.py)       *)
(***************************************************************************)
\* RunState of the contract: Running once a start() has set the flag and
\* started its thread.  A start() that is still between setting the flag
\* (line 206) and starting the thread or undoing the flag (lines 210, 214)
\* has not started monitoring.
RunStateRunning ==
    /\ is_running
    /\ \A t \in Callers : pc[t] \notin {"start_spawn", "start_failed_locked"}

\* the positions where a cycle handles its failure: the two exception
\* handlers of check_website and the post of the notification
FailurePcs == {"cw_conn_locked", "cw_err_locked", "tg_post"}

most_recent(entries, n) ==
    IF Len(entries) > n
    THEN SubSeq(entries, Len(entries) - n + 1, Len(entries))
    ELSE entries

\* C20: the buffer never holds more than max_logs entries, and its entries
\* are consecutive additions in the order they were made; an add_log puts
\* its entry last and, beyond the cap, drops the single oldest entry and no
\* other; clear_logs empties the buffer; get_logs returns the buffer as it
\* is, oldest first, and changes nothing.
C20_LogBufferBound ==
    /\ [](/\ Len(logs) <= max_logs
          /\ \A i \in 1..(Len(logs) - 1) : logs[i + 1][1] = logs[i][1] + 1)
    /\ [][\A t \in Callers :
            /\ (pc[t] = "add_log" /\ pc'[t] # pc[t])
                 => logs' = most_recent(Append(logs, loc[t].msg), max_logs)
            /\ (pc[t] = "clear_logs_locked" /\ pc'[t] # pc[t])
                 => logs' = <<>>
            /\ (pc[t] = "get_logs_locked" /\ pc'[t] # pc[t])
                 => (logs' = logs /\ call'[t].ret = logs)
            /\ (pc[t] \in {"idle"} /\ pc'[t] # pc[t])
                 => logs' = logs
         ]_vars

\* C20 witness: after MaxLogCalls additions get_logs has returned a full
\* buffer: the newest max_logs additions, the older ones evicted
C20_Witness ==
    \E t \in Callers :
        /\ call[t].op = "get_logs" /\ pc[t] = "idle"
        /\ Len(call[t].ret) = max_logs
        /\ call[t].ret[1][1] = MaxLogCalls - max_logs + 1
        /\ call[t].ret[max_logs][1] = MaxLogCalls

(***************************************************************************)
(* Claims about analyze_page_content  (src/main.py)                        *)
(***************************************************************************)
\* C21 (as claimed): an analyze_page_content call on a content that holds
\* the "No results found" sentinel returns rooms_available = False,
\* whatever the other signals of the content are.
C21_SentinelMeansUnavailable ==
    (cfu.analyzer.called /\ cfu.analyzer.content.sentinel)
        => /\ ~cfu.analyzer.result.raised
           /\ ~cfu.analyzer.result.rooms_available

table_notify(c) ==
    LET available == c.analyzer.result.rooms_available
        changed == Some(md5(c.content)) # c.pre_hash
        flipped == Some(available) # c.pre_status
    IN  \/ available /\ (changed \/ flipped)
        \/ ~available /\ changed /\ ~c.content.sentinel

C27_AnalyzeNeverRaises ==
    bot_ev.kind \in {"checked", "raised"}
        => /\ cfu.analyzer.called
           /\ ~cfu.analyzer.result.raised
           /\ cfu.outcome = "returned"
           /\ bot_ev.kind = "checked"
           /\ consecutive_errors = 0

\* C26 (as claimed): an analyze_page_content call on a page returns
\* rooms_available = True exactly when the confidence score is at least 3;
\* a page without the sentinel already holds 3 points at line 262 and is
\* declared available, so a page declared unavailable holds the sentinel,
\* and check_for_updates never returns the "possible change" reason.
C26_PossibleChangeNeverTaken ==
    /\ cfu.analyzer.called
          => LET result == cfu.analyzer.result
                 content == cfu.analyzer.content
             IN  /\ ~result.raised
                 /\ result.rooms_available
                       <=> (result.analysis.confidence_score
                              >= Halves(AvailabilityThreshold))
                 /\ ~content.sentinel
                       => (score_before_links(content)
                              >= Halves(AvailabilityThreshold))
                 /\ ~content.sentinel => result.rooms_available
                 /\ ~result.rooms_available => result.analysis.has_no_rooms_message
    /\ cfu.msg # "WEBSITE UPDATED - Possible new rooms"

(***************************************************************************)
(* Claims about DormMonitor.check_website  (src/monitor.py)                *)
(***************************************************************************)
\* the positions of a cycle that has made the comparison of line 144
ComparedPcs ==
    {"cw_changed_locked", "tg_start", "tg_post", "cw_same_locked",
     "cw_same_log", "cw_store"}

Compared(t) ==
    \/ pc[t] \in ComparedPcs
    \/ /\ pc[t] = "add_log"
       /\ loc[t].after_log \in {GotoK("cw_changed_locked"), GotoK("cw_store")}

\* C24: a cycle takes the notification path if and only if its fetch brought
\* a fingerprint, a fingerprint was stored when line 144 read it and the
\* two differ: a cycle that finds none stored only captures the baseline.
\* Every cycle whose fetch succeeded ends by storing its fingerprint in
\* previous_hash, and no cycle ends otherwise with a fingerprint in hand.
C24_NotifyIffChanged ==
    /\ [](\A t \in Threads :
            /\ Compared(t)
                  => (loc[t].notify
                        <=> (/\ loc[t].cur # ""
                             /\ loc[t].prev # ""
                             /\ loc[t].cur # loc[t].prev))
            /\ (loc[t].notify \/ pc[t] \in NotifyPcs) => Compared(t)
            /\ pc[t] \in NotifyPcs => loc[t].notify)
    /\ [][\A t \in Threads :
            (loc[t].cur # "" /\ loc'[t].cur = "")
                => /\ pc[t] = "cw_store"
                   /\ previous_hash' = loc[t].cur
                   /\ t \in Callers => call'[t].ret = "True"]_vars

\* C24 witness: a first cycle has stored its fingerprint as the baseline
\* without notifying, and a later cycle that fetched another fingerprint is
\* sending the change notification
C24_Witness ==
    \E t \in Threads :
        /\ pc[t] = "tg_post"
        /\ loc[t].notify
        /\ loc[t].cyc = 2
        /\ loc[t].prev # "" /\ loc[t].cur # loc[t].prev
        /\ previous_hash = loc[t].prev
        /\ last_check_status = "Change detected!"

\* the positions of a cycle whose fetch raised, up to its return
FetchFailed(t) ==
    \/ pc[t] \in {"cw_conn_locked", "cw_err_locked"}
    \/ /\ pc[t] = "add_log"
       /\ loc[t].after_log \in {GotoK("cw_conn_locked"), GotoK("cw_err_locked")}

\* what a cycle whose fetch raised leaves in last_check_status
FailureStatuses == {"Connection error", "Error"}

\* the cycle of thread t has compared and is about to write its own status;
\* the status still standing is that of the cycle before it
AfterFailedCycle(t) ==
    /\ pc[t] \in {"cw_changed_locked", "cw_same_locked"}
    /\ last_check_status \in FailureStatuses

\* C25: a cycle whose fetch fails leaves the stored fingerprint as it was
\* and takes no step of the notification path: only the store of a cycle
\* that fetched a fingerprint changes previous_hash.  The first successful
\* cycle after failed ones therefore compares with the fingerprint stored
\* before them, and notifies exactly when the page differs from it.
C25_FetchFailureKeepsBaseline ==
    /\ [](\A t \in Threads :
            FetchFailed(t)
                => (loc[t].cur = "" /\ ~loc[t].notify /\ pc[t] \notin NotifyPcs))
    /\ [][\A t \in Threads :
            (FetchFailed(t) /\ pc'[t] # pc[t])
                => previous_hash' = previous_hash]_vars
    /\ [][previous_hash' # previous_hash
            => \E t \in Threads :
                 /\ pc[t] = "cw_store" /\ pc'[t] # "cw_store"
                 /\ loc[t].cur # ""
                 /\ previous_hash' = loc[t].cur]_vars
    /\ [](\A t \in Threads :
            (AfterFailedCycle(t) /\ previous_hash # "")
                => /\ loc[t].prev = previous_hash
                   /\ loc[t].notify <=> (loc[t].cur # previous_hash))

\* C25 witness: the first cycle stored a baseline, the fetch of the second
\* failed, and the third cycle, which fetched another fingerprint, has found
\* the change against that baseline
C25_Witness ==
    \E t \in Workers :
        /\ AfterFailedCycle(t)
        /\ loc[t].cyc = MaxWorkerCycles
        /\ previous_hash # ""
        /\ loc[t].cur # previous_hash
        /\ loc[t].notify

\* the log holds an entry of a send_telegram_message call that failed
SendHasFailed == \E i \in 1..Len(logs) : logs[i] \in SendFailureLogs

C29_StatusSnapshotConsistent ==
    [][\A t \in Callers :
         (pc[t] = "get_status_locked" /\ pc'[t] = "idle")
             => /\ call'[t].ret.last_check_time = last_check_time
                /\ call'[t].ret.last_check_status = last_check_status
                /\ status_cycle = last_check_time]_vars

\* the operations of the control surface that C30 is about
LifecycleOps == {"configure", "start", "stop", "clear_logs"}

\* the entries configure() has left in the log
ConfigurationLogs ==
    SelectSeq(logs, LAMBDA e : e = <<"Configuration updated successfully",
                                     "success">>)

\* C30: no step of configure(), start(), stop() or clear_logs() changes
\* previous_hash, and a stored fingerprint is never emptied.  A cycle that
\* finds a fingerprint stored therefore compares its page with it, whatever
\* url that fingerprint was taken from, and notifies when they differ; it
\* does not log the capture of a new baseline.
C30_BaselineSurvivesLifecycle ==
    /\ [][\A t \in Callers :
            (/\ call'[t].op \in LifecycleOps
             /\ (call'[t] # call[t] \/ pc'[t] # pc[t]))
                => previous_hash' = previous_hash]_vars
    /\ [][previous_hash # "" => previous_hash' # ""]_vars
    /\ [](\A t \in Threads :
            /\ (Compared(t) /\ loc[t].prev # "")
                  => (loc[t].notify <=> (loc[t].cur # loc[t].prev))
            /\ (/\ pc[t] = "add_log"
                 /\ loc[t].msg = <<"Initial website content captured", "info">>)
                  => loc[t].prev = "")

\* C30 witness: a baseline was taken from the page at u1; the monitor has
\* since been stopped and started again, its log cleared and its url set to
\* u2; the second worker has fetched the page at u2, compared it with the
\* fingerprint of the page at u1 and found a change
C30_Witness ==
    LET w == WorkerIds[2]
    IN  /\ nspawned = 2
        /\ Compared(w)
        /\ url = "u2"
        /\ loc[w].cur \in PageHashes("u2")
        /\ loc[w].prev \in PageHashes("u1")
        /\ previous_hash = loc[w].prev
        /\ loc[w].notify
        /\ \A t \in MainCallers : pc[t] = "idle" /\ call[t].op = "configure"
        /\ nconfigures = 2
        /\ Len(ConfigurationLogs) < nconfigures

====
